---------------------------- MODULE Spec2Model ----------------------------
(***************************************************************************)
(* Model of src/src/main.py: the lifespan manager of the analytics bot and *)
(* the three WebSocket push endpoints created by create_app.               *)
(*                                                                         *)
(* The program runs on one asyncio event loop, so the code between two     *)
(* await points is one atomic step.  The await points are                  *)
(*   lifespan:  data_collector.start(), load_models(), yield, stop()       *)
(*   handlers:  accept(), the topic fetch, send_json(), asyncio.sleep()    *)
(* asyncio.sleep(n) returns no sooner than n seconds after its call, so    *)
(* elapsed time is measured in completed sleeps of the handler.            *)
(***************************************************************************)
EXTENDS Naturals, FiniteSets, Sequences, TLC

\* Number of WebSocket object addresses (values of id(websocket)) in play.
NumSockets == 2

\* Completed sleeps after a close are counted up to this number.
MaxClosedSleeps == 2

\* Number of times lifespan(app) is entered in one process.
MaxStarts == 2

Sockets == 1..NumSockets

Topics == {"projects", "portfolio", "alerts"}

\* asyncio.sleep(2) / asyncio.sleep(5) / asyncio.sleep(10)
ProjectsInterval == 2
PortfolioInterval == 5
AlertsInterval == 10

Interval(t) ==
    CASE t = "projects" -> ProjectsInterval
      [] t = "portfolio" -> PortfolioInterval
      [] OTHER -> AlertsInterval

\* What a topic fetch can return: an empty (falsy) or a non-empty value.
Snapshots == {"empty", "data"}

VARIABLES
    lpc,                 \* position of the lifespan coroutine
    failedStep,          \* the startup step that raised, "none" if none did
    raised,              \* TRUE once lifespan re-raised to its caller
    data_collector,      \* the four module globals: FALSE models None
    project_analyzer,
    portfolio_optimizer,
    risk_analyzer,
    dcState,             \* the data collector: "idle", "running", "stopped"
    modelsLoaded,        \* load_models() has completed
    starts,              \* calls of data_collector.start() so far
    active_connections,  \* the registry: connection id -> websocket
    hpc,                 \* position of the handler serving each websocket
    topic,               \* the endpoint each websocket was opened on
    transport,           \* "none", "open", "closed" (by the client)
    snapshot,            \* the value the handler's last fetch returned
    engineSeen,          \* outcome of the `if engine:` test of this cycle
    fetchedFrom,         \* the global the fetch of this cycle was called on
    sent,                \* frames delivered in the current cycle
    watched,             \* the session whose sleeps are counted, or 0
    sleepFresh,          \* its handler's current sleep began after the event
    closedSleeps         \* its handler's full sleeps begun and completed since

lvars == <<lpc, failedStep, raised, data_collector, project_analyzer,
           portfolio_optimizer, risk_analyzer, dcState, modelsLoaded, starts>>
hvars == <<active_connections, hpc, topic, transport, snapshot, engineSeen,
           fetchedFrom, sent, watched, sleepFresh, closedSleeps>>
vars == <<lvars, hvars>>

-----------------------------------------------------------------------------
(* The registry: a dict keyed by f"{topic}_{id(websocket)}".               *)

connection_id(t, w) == <<t, w>>

\* active_connections[connection_id] = websocket
RegistryStore(ac, cid, w) ==
    [c \in DOMAIN ac \cup {cid} |-> IF c = cid THEN w ELSE ac[c]]

\* A faulty pop that drops every entry of the identifier's topic.
RegistryPopTopic(ac, cid) ==
    [c \in {d \in DOMAIN ac : d[1] # cid[1]} |-> ac[c]]

\* active_connections.pop(connection_id, None)
RegistryPop(ac, cid) ==
    [c \in DOMAIN ac \ {cid} |-> ac[c]]

\* The websocket objects the registry keeps alive.
Referenced == {active_connections[c] : c \in DOMAIN active_connections}

\* id(websocket) is the address of a live object: a new websocket gets an
\* address that no running handler and no registry entry holds.
FreeAddress(w) == hpc[w] = "none" /\ w \notin Referenced

-----------------------------------------------------------------------------
(* lifespan                                                                *)

StartupSteps == <<"config", "data_collector", "project_analyzer",
                  "portfolio_optimizer", "risk_analyzer">>

\* Position of a step in the synchronous prefix of the startup (lines 49-55).
StepIndex(s) == CHOOSE i \in 1..Len(StartupSteps) : StartupSteps[i] = s

\* A faulty startup that constructs the risk analyzer only after the
\* models are loaded.
ConstructedLate(g, f) ==
    IF f = "none" THEN g # "risk_analyzer" ELSE StepIndex(g) < StepIndex(f)

\* Whether the constructor of global g ran to completion when step f raised
\* ("none": nothing raised).
Constructed(g, f) == f = "none" \/ StepIndex(g) < StepIndex(f)

\* A faulty handler that logs the exception and falls through to the yield.
SwallowException == "serving"

\* except Exception as e: logging.error(...); raise
OnStartupException == "failed"

TypeOK ==
    /\ lpc \in {"init", "dc_start", "load_models", "serving", "dc_stop",
                "stopped", "failed"}
    /\ failedStep \in {"none", "config", "data_collector", "project_analyzer",
                       "portfolio_optimizer", "risk_analyzer", "dc_start",
                       "load_models"}
    /\ raised \in BOOLEAN
    /\ data_collector \in BOOLEAN
    /\ project_analyzer \in BOOLEAN
    /\ portfolio_optimizer \in BOOLEAN
    /\ risk_analyzer \in BOOLEAN
    /\ dcState \in {"idle", "running", "stopped"}
    /\ modelsLoaded \in BOOLEAN
    /\ starts \in 0..MaxStarts
    /\ DOMAIN active_connections \subseteq (Topics \X Sockets)
    /\ \A c \in DOMAIN active_connections : active_connections[c] \in Sockets
    /\ hpc \in [Sockets -> {"none", "accept", "fetch", "send", "sleep",
                            "exited", "crashed"}]
    /\ topic \in [Sockets -> Topics \cup {"none"}]
    /\ transport \in [Sockets -> {"none", "open", "closed"}]
    /\ snapshot \in [Sockets -> Snapshots \cup {"none"}]
    /\ engineSeen \in [Sockets -> BOOLEAN]
    /\ fetchedFrom \in [Sockets -> {"none", "project_analyzer",
                                    "portfolio_optimizer", "risk_analyzer"}]
    /\ sent \in [Sockets -> 0..1]
    /\ watched \in Sockets \cup {0}
    /\ sleepFresh \in BOOLEAN
    /\ closedSleeps \in 0..MaxClosedSleeps

Init ==
    /\ lpc = "init"
    /\ failedStep = "none"
    /\ raised = FALSE
    /\ data_collector = FALSE
    /\ project_analyzer = FALSE
    /\ portfolio_optimizer = FALSE
    /\ risk_analyzer = FALSE
    /\ dcState = "idle"
    /\ modelsLoaded = FALSE
    /\ starts = 0
    /\ active_connections = << >>
    /\ hpc = [w \in Sockets |-> "none"]
    /\ topic = [w \in Sockets |-> "none"]
    /\ transport = [w \in Sockets |-> "none"]
    /\ snapshot = [w \in Sockets |-> "none"]
    /\ engineSeen = [w \in Sockets |-> FALSE]
    /\ fetchedFrom = [w \in Sockets |-> "none"]
    /\ sent = [w \in Sockets |-> 0]
    /\ watched = 0
    /\ sleepFresh = FALSE
    /\ closedSleeps = 0

\* Lines 45-58: ProjectConfig(), the four constructors and the call of
\* data_collector.start() run without an await in between.  f is the step
\* that raises, "none" when all succeed.  A constructor that ran bound its
\* global to a new object: a collector not started, an analyzer without
\* models.
lifespan_startup(f) ==
    /\ lpc = "init"
    /\ data_collector' = Constructed("data_collector", f)
    /\ project_analyzer' = Constructed("project_analyzer", f)
    /\ portfolio_optimizer' = Constructed("portfolio_optimizer", f)
    /\ risk_analyzer' = Constructed("risk_analyzer", f)
    /\ failedStep' = f
    /\ IF f = "none"
         THEN lpc' = "dc_start" /\ raised' = FALSE
         ELSE /\ lpc' = OnStartupException
              /\ raised' = (OnStartupException = "failed")
    /\ dcState' = IF Constructed("data_collector", f) THEN "idle" ELSE dcState
    /\ modelsLoaded' =
         IF Constructed("project_analyzer", f) THEN FALSE ELSE modelsLoaded
    /\ starts' = IF f = "none" THEN starts + 1 ELSE starts
    /\ UNCHANGED hvars

\* Line 58 returns, line 61 calls load_models().
lifespan_dc_started ==
    /\ lpc = "dc_start"
    /\ dcState' = "running"
    /\ lpc' = "load_models"
    /\ UNCHANGED <<failedStep, raised, data_collector, project_analyzer,
                   portfolio_optimizer, risk_analyzer, modelsLoaded, starts,
                   hvars>>

\* Line 58 raises: lines 65-67.
lifespan_dc_start_failed ==
    /\ lpc = "dc_start"
    /\ failedStep' = "dc_start"
    /\ lpc' = OnStartupException
    /\ raised' = (OnStartupException = "failed")
    /\ UNCHANGED <<data_collector, project_analyzer, portfolio_optimizer,
                   risk_analyzer, dcState, modelsLoaded, starts, hvars>>

\* Line 61 returns, line 69 yields: the application serves.
lifespan_models_loaded ==
    /\ lpc = "load_models"
    /\ modelsLoaded' = TRUE
    /\ lpc' = "serving"
    /\ UNCHANGED <<failedStep, raised, data_collector, project_analyzer,
                   portfolio_optimizer, risk_analyzer, dcState, starts, hvars>>

\* Line 61 raises: lines 65-67.  Nothing stops the collector.
lifespan_load_models_failed ==
    /\ lpc = "load_models"
    /\ failedStep' = "load_models"
    /\ lpc' = OnStartupException
    /\ raised' = (OnStartupException = "failed")
    /\ UNCHANGED <<data_collector, project_analyzer, portfolio_optimizer,
                   risk_analyzer, dcState, modelsLoaded, starts, hvars>>

\* lifespan(app) is called and entered again after a completed shutdown:
\* a new generator runs lines 39-77 from the top.  The module globals still
\* hold the objects of the previous run.
lifespan_again ==
    /\ lpc = "stopped"
    /\ starts < MaxStarts
    /\ lpc' = "init"
    /\ UNCHANGED <<failedStep, raised, data_collector, project_analyzer,
                   portfolio_optimizer, risk_analyzer, dcState, modelsLoaded,
                   starts, hvars>>

\* Lines 71-75: the generator is resumed after the yield.
lifespan_shutdown ==
    /\ lpc = "serving"
    /\ lpc' = IF data_collector THEN "dc_stop" ELSE "stopped"
    /\ UNCHANGED <<failedStep, raised, data_collector, project_analyzer,
                   portfolio_optimizer, risk_analyzer, dcState, modelsLoaded,
                   starts, hvars>>

\* Line 75 returns, line 77: shutdown complete.
lifespan_dc_stopped ==
    /\ lpc = "dc_stop"
    /\ dcState' = "stopped"
    /\ lpc' = "stopped"
    /\ UNCHANGED <<failedStep, raised, data_collector, project_analyzer,
                   portfolio_optimizer, risk_analyzer, modelsLoaded, starts,
                   hvars>>

-----------------------------------------------------------------------------
(* The WebSocket handlers: websocket_projects, websocket_portfolio and     *)
(* websocket_alerts are the same code up to the engine, the interval and   *)
(* the `if alerts:` test, and are modelled by one set of actions indexed   *)
(* by the topic of the endpoint.                                           *)

\* The module global each endpoint tests and fetches from.
Engine(t) ==
    CASE t = "projects" -> project_analyzer
      [] t = "portfolio" -> portfolio_optimizer
      [] OTHER -> risk_analyzer

\* A faulty portfolio handler, copied from the project handler with the
\* fetch left as it was.
EngineNameCopied(t) ==
    CASE t = "alerts" -> "risk_analyzer"
      [] OTHER -> "project_analyzer"

\* The name of that global: the object the fetch is called on (lines 121,
\* 141, 161).
EngineName(t) ==
    CASE t = "projects" -> "project_analyzer"
      [] t = "portfolio" -> "portfolio_optimizer"
      [] OTHER -> "risk_analyzer"

\* A faulty handler that skips falsy snapshots on every topic.
ShouldSendIfTruthy(t, s) == s # "empty"

\* Lines 121-122, 141-142: the fetched value is always sent.
\* Lines 161-163: alerts are sent only `if alerts:`.
ShouldSend(t, s) == IF t = "alerts" THEN s # "empty" ELSE TRUE

\* The ProjectAnalyzer's fetch fails with NotReadyError before load_models()
\* has completed; the other sources have no such condition.
FetchCanReturn(t) == t = "projects" => modelsLoaded

Running(w) == hpc[w] \in {"accept", "fetch", "send", "sleep"}

\* uvicorn.run(app) drives the handlers for as long as the lifespan lasts:
\* it exits when startup raised and when shutdown has completed.
ProcessAlive == lpc \notin {"failed", "stopped"}

\* The measure of elapsed time.  One session at a time is watched, any one,
\* from an event of the serving state: the client's close, or the delivery
\* of a frame to a session that stays open.  For it, the sleeps of its
\* handler that began after the event and ran to completion are counted.
\* Each took a full interval of the topic.  A session watched since a frame
\* is watched until the end of the cycle that follows its first full sleep.
SleepCalled(w) == sleepFresh' = IF watched' = w THEN TRUE ELSE sleepFresh

NoSleepCalled(w) == sleepFresh' = IF watched = w THEN FALSE ELSE sleepFresh

Unwatch(w) ==
    IF watched = w
      THEN watched' = 0 /\ sleepFresh' = FALSE /\ closedSleeps' = 0
      ELSE UNCHANGED <<watched, sleepFresh, closedSleeps>>

\* watch: session w becomes the watched one.
StartWatch(w, watch) ==
    IF watch
      THEN lpc = "serving" /\ watched = 0 /\ watched' = w
      ELSE UNCHANGED watched

\* A faulty handler whose fetch is a blocking call: it keeps the event loop
\* until the source has answered.
HoldsLoopInFetch(pc) == pc = "fetch"

\* The positions at which a suspended handler keeps the event loop to
\* itself.  Every wait of the handlers is an `await` (lines 113, 121, 122,
\* 124): there is none.
HoldsLoop(pc) == FALSE

\* The event loop can run a step of handler w.
LoopFree(w) == \A o \in Sockets \ {w} : ~HoldsLoop(hpc[o])

\* A faulty handler that keeps the snapshot in a variable shared by the
\* handlers of the topic.
StoreSnapshotShared(w, s) ==
    [o \in Sockets |-> IF topic[o] = topic[w] THEN s ELSE snapshot[o]]

\* project_data = await ... (lines 121, 141, 161): the value is bound to a
\* local of the handler coroutine.
StoreSnapshot(w, s) == [snapshot EXCEPT ![w] = s]

\* A faulty loop whose sleep is skipped: the next fetch follows at once.
CycleEndNoSleep(w) ==
    hpc' = [hpc EXCEPT ![w] = "fetch"] /\ NoSleepCalled(w)

\* Lines 124, 144, 165: the last statement of the loop body, reached on
\* every path through it, calls asyncio.sleep.
CycleEnd(w) ==
    hpc' = [hpc EXCEPT ![w] = "sleep"] /\ SleepCalled(w)

\* Top of `while True:`: the `if engine:` test, then either the call of the
\* fetch or, with the engine None, the call of asyncio.sleep.
LoopTop(w, t) ==
    /\ engineSeen' = [engineSeen EXCEPT ![w] = Engine(t)]
    /\ sent' = [sent EXCEPT ![w] = 0]
    /\ snapshot' = [snapshot EXCEPT ![w] = "none"]
    /\ IF Engine(t)
         THEN /\ hpc' = [hpc EXCEPT ![w] = "fetch"]
              /\ fetchedFrom' = [fetchedFrom EXCEPT ![w] = EngineName(t)]
              /\ NoSleepCalled(w)
         ELSE /\ fetchedFrom' = [fetchedFrom EXCEPT ![w] = "none"]
              /\ CycleEnd(w)

\* A client connects to /ws/<t>: the endpoint is called with a new websocket
\* and awaits websocket.accept() (lines 113, 133, 153).
websocket_open(w, t) ==
    /\ lpc \in {"init", "dc_start", "load_models", "serving"}
    /\ FreeAddress(w)
    /\ hpc' = [hpc EXCEPT ![w] = "accept"]
    /\ topic' = [topic EXCEPT ![w] = t]
    /\ transport' = [transport EXCEPT ![w] = "open"]
    /\ UNCHANGED <<lvars, active_connections, snapshot, engineSeen,
                   fetchedFrom, sent, watched, sleepFresh, closedSleeps>>

\* accept() returns: lines 114-115 register the websocket, then the first
\* iteration of the loop starts.
websocket_accepted(w) ==
    /\ ProcessAlive
    /\ LoopFree(w)
    /\ hpc[w] = "accept"
    /\ active_connections' =
         RegistryStore(active_connections, connection_id(topic[w], w), w)
    /\ UNCHANGED <<lvars, topic, transport, watched, closedSleeps>>
    /\ LoopTop(w, topic[w])

\* The fetch returns s (lines 121, 141, 161): send it, or for an empty alert
\* list go to sleep.
websocket_fetch_returned(w, s) ==
    /\ ProcessAlive
    /\ LoopFree(w)
    /\ hpc[w] = "fetch"
    /\ FetchCanReturn(topic[w])
    /\ snapshot' = StoreSnapshot(w, s)
    /\ UNCHANGED <<lvars, active_connections, topic, transport, engineSeen,
                   fetchedFrom, sent, watched, closedSleeps>>
    /\ IF ShouldSend(topic[w], s)
         THEN hpc' = [hpc EXCEPT ![w] = "send"] /\ NoSleepCalled(w)
         ELSE CycleEnd(w)

\* The handler ends with an exception that is not WebSocketDisconnect: no
\* except clause matches, nothing is popped.  The server closes the
\* transport of a handler that ended; the handler's locals are gone.  A
\* session watched since a frame is watched no longer.
Crash(w) ==
    /\ hpc' = [hpc EXCEPT ![w] = "crashed"]
    /\ transport' = [transport EXCEPT ![w] = "closed"]
    /\ snapshot' = [snapshot EXCEPT ![w] = "none"]
    /\ engineSeen' = [engineSeen EXCEPT ![w] = FALSE]
    /\ fetchedFrom' = [fetchedFrom EXCEPT ![w] = "none"]
    /\ sent' = [sent EXCEPT ![w] = 0]
    /\ IF transport[w] = "open"
         THEN Unwatch(w)
         ELSE UNCHANGED <<watched, sleepFresh, closedSleeps>>
    /\ UNCHANGED <<lvars, active_connections, topic>>

\* The fetch raises.
websocket_fetch_raised(w) ==
    /\ ProcessAlive
    /\ LoopFree(w)
    /\ hpc[w] = "fetch"
    /\ Crash(w)

\* send_json returns: one frame was delivered; line 124 sleeps.
websocket_send_returned(w, watch) ==
    /\ ProcessAlive
    /\ LoopFree(w)
    /\ hpc[w] = "send"
    /\ transport[w] = "open"
    /\ sent' = [sent EXCEPT ![w] = @ + 1]
    /\ StartWatch(w, watch)
    /\ CycleEnd(w)
    /\ UNCHANGED <<lvars, active_connections, topic, transport, snapshot,
                   engineSeen, fetchedFrom, closedSleeps>>

\* send_json on a transport the client closed raises WebSocketDisconnect:
\* lines 126-128 pop the entry and the handler returns.
websocket_send_disconnected(w) ==
    /\ ProcessAlive
    /\ LoopFree(w)
    /\ hpc[w] = "send"
    /\ transport[w] = "closed"
    /\ active_connections' =
         RegistryPop(active_connections, connection_id(topic[w], w))
    /\ hpc' = [hpc EXCEPT ![w] = "exited"]
    /\ snapshot' = [snapshot EXCEPT ![w] = "none"]
    /\ engineSeen' = [engineSeen EXCEPT ![w] = FALSE]
    /\ fetchedFrom' = [fetchedFrom EXCEPT ![w] = "none"]
    /\ sent' = [sent EXCEPT ![w] = 0]
    /\ Unwatch(w)
    /\ UNCHANGED <<lvars, topic, transport>>

\* send_json raises anything else (a value that is not JSON serialisable, a
\* RuntimeError of the transport).
websocket_send_raised(w) ==
    /\ ProcessAlive
    /\ LoopFree(w)
    /\ hpc[w] = "send"
    /\ Crash(w)

\* asyncio.sleep returns, a full interval after its call: next iteration.
websocket_sleep_returned(w) ==
    /\ ProcessAlive
    /\ LoopFree(w)
    /\ hpc[w] = "sleep"
    /\ IF watched = w /\ transport[w] = "open" /\ closedSleeps >= 1
         THEN watched' = 0 /\ closedSleeps' = 0
         ELSE /\ UNCHANGED watched
              /\ closedSleeps' =
                   IF watched = w /\ sleepFresh
                                 /\ closedSleeps < MaxClosedSleeps
                     THEN closedSleeps + 1 ELSE closedSleeps
    /\ UNCHANGED <<lvars, active_connections, topic, transport>>
    /\ LoopTop(w, topic[w])

\* The websocket of a handler that returned is garbage: its address can be
\* given to a new object.
websocket_release(w) ==
    /\ ProcessAlive
    /\ hpc[w] = "exited"
    /\ w \notin Referenced
    /\ hpc' = [hpc EXCEPT ![w] = "none"]
    /\ topic' = [topic EXCEPT ![w] = "none"]
    /\ transport' = [transport EXCEPT ![w] = "none"]
    /\ UNCHANGED <<lvars, active_connections, snapshot, engineSeen,
                   fetchedFrom, sent, watched, sleepFresh, closedSleeps>>

\* The client closes its end.  The handlers never call receive(), so the
\* close is noticed only by a later send_json.  A session watched since a
\* frame is watched no longer.
client_close(w, watch) ==
    /\ ProcessAlive
    /\ hpc[w] \in {"fetch", "send", "sleep"}
    /\ transport[w] = "open"
    /\ transport' = [transport EXCEPT ![w] = "closed"]
    /\ IF watched = w
         THEN ~watch /\ Unwatch(w)
         ELSE StartWatch(w, watch) /\ UNCHANGED <<sleepFresh, closedSleeps>>
    /\ UNCHANGED <<lvars, active_connections, hpc, topic, snapshot,
                   engineSeen, fetchedFrom, sent>>

Registered(w) ==
    /\ topic[w] # "none"
    /\ connection_id(topic[w], w) \in DOMAIN active_connections

-----------------------------------------------------------------------------
Next ==
    \/ \E f \in {"none", "config", "data_collector", "project_analyzer",
                 "portfolio_optimizer", "risk_analyzer"} : lifespan_startup(f)
    \/ lifespan_dc_started
    \/ lifespan_dc_start_failed
    \/ lifespan_models_loaded
    \/ lifespan_load_models_failed
    \/ lifespan_shutdown
    \/ lifespan_dc_stopped
    \/ \E w \in Sockets, t \in Topics : websocket_open(w, t)
    \/ \E w \in Sockets : websocket_accepted(w)
    \/ \E w \in Sockets, s \in Snapshots : websocket_fetch_returned(w, s)
    \/ \E w \in Sockets : websocket_fetch_raised(w)
    \/ \E w \in Sockets, watch \in BOOLEAN :
          websocket_send_returned(w, watch)
    \/ \E w \in Sockets : websocket_send_disconnected(w)
    \/ \E w \in Sockets : websocket_send_raised(w)
    \/ \E w \in Sockets : websocket_sleep_returned(w)
    \/ \E w \in Sockets : websocket_release(w)
    \/ \E w \in Sockets, watch \in BOOLEAN : client_close(w, watch)

Spec == Init /\ [][Next]_vars

\* The same program with lifespan entered more than once.
RerunNext == Next \/ lifespan_again

RerunSpec == Init /\ [][RerunNext]_vars

-----------------------------------------------------------------------------
(* Properties                                                              *)

\* C1: the registry never holds an entry for a session whose transport has
\* been closed for more than one full interval of its topic.  Two sleeps of
\* the handler that began after the close and ran to completion put the
\* close more than one interval in the past.  Stated of the serving state
\* and of the watched session, which can be any closed session.
C1_NoStaleEntry ==
    \A w \in Sockets :
        (lpc = "serving" /\ Registered(w) /\ transport[w] = "closed"
           /\ watched = w)
            => closedSleeps < MaxClosedSleeps

\* C1, the case the claim names: an alert session that the client closed,
\* still registered two full alert intervals later, in a period in which
\* get_active_alerts returns an empty list and no send is attempted.
C1_StaleAlertEntry ==
    \E w \in Sockets :
        /\ lpc = "serving"
        /\ topic[w] = "alerts"
        /\ Registered(w)
        /\ transport[w] = "closed"
        /\ hpc[w] = "sleep"
        /\ engineSeen[w]
        /\ snapshot[w] = "empty"
        /\ watched = w
        /\ closedSleeps = MaxClosedSleeps

\* C2: once a handler has terminated, for whatever reason, its identifier is
\* absent from the registry.  Stated of the serving state.
C2_TerminatedHandlerDeregistered ==
    \A w \in Sockets :
        (lpc = "serving" /\ hpc[w] \in {"exited", "crashed"})
            => ~Registered(w)

\* C3: a fetch that raises costs only that cycle: the handler goes on to its
\* interval sleep and the session stays open and registered.  Stated of the
\* serving state, with every engine initialised.
C3_FetchErrorSkipsCycle ==
    [][\A w \in Sockets :
         (lpc = "serving" /\ hpc[w] = "fetch" /\ hpc'[w] # "fetch")
            => /\ hpc'[w] \in {"send", "sleep"}
               /\ transport'[w] = transport[w]
               /\ connection_id(topic[w], w)
                    \in DOMAIN active_connections']_vars

\* C4: once shutdown has returned the registry is empty and no handler is
\* left running.
C4_ShutdownDrainsSessions ==
    lpc = "stopped" =>
        /\ DOMAIN active_connections = {}
        /\ \A w \in Sockets : ~Running(w)

\* C5: when lifespan has ended, by a failed startup or by a completed
\* shutdown, no data collector whose start() completed is left running.
C5_StartedCollectorStopped ==
    lpc \in {"failed", "stopped"} => dcState # "running"

\* C6: a failure of any startup step ends lifespan with the exception
\* re-raised to its caller, and the serving state is entered only with every
\* step done.
C6_FailedStartupNeverServes ==
    /\ failedStep # "none" => (lpc = "failed" /\ raised)
    /\ lpc = "serving" =>
          /\ data_collector /\ project_analyzer
          /\ portfolio_optimizer /\ risk_analyzer
          /\ dcState = "running"
          /\ modelsLoaded

\* C6: startup was aborted by load_models() after the collector started.
C6_AbortedAfterCollectorStart ==
    /\ failedStep = "load_models"
    /\ lpc = "failed"
    /\ raised
    /\ dcState = "running"

\* C7: a project handler makes no fetch before load_models() has completed.
C7_NoFetchBeforeReady ==
    [][\A w \in Sockets :
         (topic'[w] = "projects" /\ hpc[w] # "fetch" /\ hpc'[w] = "fetch")
            => modelsLoaded']_vars

\* C7: a project session registered during startup, fetching from the
\* analyzer whose models are not loaded.
C7_FetchDuringStartup ==
    \E w \in Sockets :
        /\ lpc \in {"dc_start", "load_models"}
        /\ topic[w] = "projects"
        /\ Registered(w)
        /\ hpc[w] = "fetch"
        /\ ~modelsLoaded

SendFailed(a) == hpc[a] = "send" /\ hpc'[a] \in {"exited", "crashed"}

\* C8: a step in which the send to session a fails leaves every other
\* session b of the topic as it was: its handler's position, its transport,
\* its frames and its registry entry.  A b that was about to send still is.
C8_SendFailureIsolated ==
    [][\A a, b \in Sockets :
         (a # b /\ topic[a] = topic[b] /\ SendFailed(a))
            => /\ hpc'[b] = hpc[b]
               /\ transport'[b] = transport[b]
               /\ sent'[b] = sent[b]
               /\ snapshot'[b] = snapshot[b]
               /\ Registered(b) =>
                    /\ connection_id(topic[b], b)
                         \in DOMAIN active_connections'
                    /\ active_connections'[connection_id(topic[b], b)]
                         = b]_vars

\* C8: the send to one session failed and another session of the topic,
\* still registered, has its frame of the cycle.
C8_OtherSessionDelivered ==
    \E a, b \in Sockets :
        /\ a # b
        /\ topic[a] # "none"
        /\ topic[a] = topic[b]
        /\ hpc[a] = "exited"
        /\ Registered(b)
        /\ hpc[b] = "sleep"
        /\ sent[b] = 1

\* C9: a cycle never delivers more than one frame; an alert cycle whose
\* snapshot is empty delivers none; a project or portfolio cycle that found
\* its engine set has delivered exactly one frame when it reaches its sleep,
\* whatever the snapshot.
C9_FramesPerCycle ==
    \A w \in Sockets :
        /\ sent[w] <= 1
        /\ (topic[w] = "alerts" /\ snapshot[w] = "empty") => sent[w] = 0
        /\ (topic[w] \in {"projects", "portfolio"} /\ hpc[w] = "sleep"
              /\ engineSeen[w]) => sent[w] = 1

\* C9: an alert cycle ended on an empty snapshot, and a project cycle ended
\* having sent an empty (unchanged, falsy) snapshot.
C9_EmptyAlertAndProjectCycle ==
    \E a, b \in Sockets :
        /\ topic[a] = "alerts" /\ hpc[a] = "sleep"
        /\ engineSeen[a] /\ snapshot[a] = "empty" /\ sent[a] = 0
        /\ topic[b] = "projects" /\ hpc[b] = "sleep"
        /\ engineSeen[b] /\ snapshot[b] = "empty" /\ sent[b] = 1

\* A full sleep of the handler of w has completed since a frame was
\* delivered to w, which has stayed open.
SleptSinceFrame(w) ==
    watched = w /\ transport[w] = "open" /\ closedSleeps >= 1

\* The handler of w begins a fetch in this step.
FetchBegins(w) == hpc[w] # "fetch" /\ hpc'[w] = "fetch"

\* C11, as stated of the topic: while serving, no fetch of a topic begins
\* while the fetch or the delivery of another subscriber of the topic is
\* still pending.
C11_TopicCyclesNeverOverlap ==
    [][\A a, b \in Sockets :
         (lpc = "serving" /\ a # b /\ topic[a] = topic[b] /\ FetchBegins(a))
            => hpc[b] \notin {"fetch", "send"}]_vars

\* C11, of one session: the fetch of its cycle N+1 never begins before the
\* delivery of cycle N to it has been made.  A cycle whose snapshot was due
\* for delivery (any project or portfolio snapshot, a non-empty alert list)
\* has delivered its frame when the next fetch begins.
C11_SessionCyclesNeverOverlap ==
    [][\A w \in Sockets :
         (FetchBegins(w)
            /\ (snapshot[w] = "data"
                  \/ (snapshot[w] = "empty" /\ topic[w] # "alerts")))
            => (hpc[w] = "sleep" /\ sent[w] = 1)]_vars

\* C11: session a is in the fetch of a later cycle, begun after its frame
\* and a full sleep, while the delivery to another subscriber b of the same
\* topic is pending.
C11_OverlapAcrossSessions ==
    \E a, b \in Sockets :
        /\ a # b
        /\ lpc = "serving"
        /\ topic[a] = topic[b]
        /\ SleptSinceFrame(a)
        /\ hpc[a] = "fetch"
        /\ hpc[b] = "send"

AllConstructed ==
    /\ data_collector /\ project_analyzer
    /\ portfolio_optimizer /\ risk_analyzer

\* C13: the startup steps run in sequence.  data_collector.start() is called
\* only with the four engines constructed; while it is awaited the collector
\* has not started and no model is loaded; load_models() is awaited only
\* with the collector running; models are loaded only after the collector
\* started; the serving state is entered only with the models loaded.
C13_StartupInSequence ==
    /\ starts >= 1 => AllConstructed
    /\ lpc \in {"dc_start", "load_models", "serving", "dc_stop"}
          => AllConstructed
    /\ lpc = "dc_start" => (dcState = "idle" /\ ~modelsLoaded)
    /\ lpc = "load_models" => (dcState = "running" /\ ~modelsLoaded)
    /\ modelsLoaded => dcState \in {"running", "stopped"}
    /\ lpc = "serving" => (dcState = "running" /\ modelsLoaded)

\* C13: load_models() is awaited, after start() has completed on a
\* collector constructed with the three other engines.
C13_LoadingAfterCollectorStart ==
    /\ lpc = "load_models"
    /\ AllConstructed
    /\ starts = 1
    /\ dcState = "running"
    /\ ~modelsLoaded

\* C14: removing an identifier from the registry is idempotent.  For every
\* registry the program reaches and every identifier: removing an absent
\* identifier leaves the registry as it is; after a removal the identifier
\* is absent and every other entry is as it was; a second removal yields
\* the registry of the first.
C14_RegistryPopIdempotent ==
    \A c \in Topics \X Sockets :
        LET once == RegistryPop(active_connections, c)
        IN  /\ c \notin DOMAIN active_connections
                 => once = active_connections
            /\ c \notin DOMAIN once
            /\ DOMAIN once = DOMAIN active_connections \ {c}
            /\ \A d \in DOMAIN once : once[d] = active_connections[d]
            /\ RegistryPop(once, c) = once

\* C14: the handler of one session has popped its identifier, which is now
\* absent, and the registry holds the entry of another session.
C14_PoppedAndOthersLeft ==
    \E a, b \in Sockets :
        /\ a # b
        /\ hpc[a] = "exited"
        /\ topic[a] # "none"
        /\ connection_id(topic[a], a) \notin DOMAIN active_connections
        /\ Registered(b)
        /\ topic[b] = topic[a]

\* C15: startup run again after it completed is a no-op: the engines are
\* not re-created and data_collector.start() is not called a second time.
\* A step taken after an earlier run of lifespan has completed its shutdown
\* leaves the collector as that shutdown left it and calls start() no more.
C15_LifecycleIdempotent ==
    [][(starts >= 1 /\ dcState = "stopped")
          => (dcState' = "stopped" /\ starts' = starts)]_vars

\* C15: lifespan was entered a second time: a new collector was constructed
\* over the stopped one and its start() has been called.
C15_StartedTwice ==
    /\ starts = 2
    /\ lpc = "dc_start"
    /\ dcState = "idle"

\* C16, as stated of the topic: while serving, at most one fetch is pending
\* against the source of a topic, however many sessions are open on it.
C16_OneFetchPerTopic ==
    \A a, b \in Sockets :
        (lpc = "serving" /\ a # b /\ topic[a] = topic[b])
            => ~(hpc[a] = "fetch" /\ hpc[b] = "fetch")

\* C16, of one session: each cycle of a session makes one fetch; the value
\* it returns becomes the snapshot of that session alone; the frame then
\* delivered to the session is that snapshot.
C16_OneFetchPerSessionCycle ==
    [][\A w \in Sockets :
         /\ FetchBegins(w) => snapshot'[w] = "none"
         /\ (hpc[w] = "fetch" /\ hpc'[w] \in {"send", "sleep"})
               => /\ snapshot'[w] \in Snapshots
                  /\ \A o \in Sockets \ {w} : snapshot'[o] = snapshot[o]
         /\ snapshot'[w] \in Snapshots
               => (snapshot[w] = snapshot'[w] \/ hpc[w] = "fetch")
         /\ sent'[w] > sent[w]
               => (snapshot[w] \in Snapshots
                     /\ snapshot'[w] = snapshot[w])]_vars

\* C16: two sessions of the project topic have each been sent the frame of
\* their cycle, one an empty snapshot and the other a non-empty one.
C16_TwoSessionsTwoSnapshots ==
    \E a, b \in Sockets :
        /\ topic[a] = "projects" /\ topic[b] = "projects"
        /\ hpc[a] = "sleep" /\ hpc[b] = "sleep"
        /\ sent[a] = 1 /\ sent[b] = 1
        /\ snapshot[a] = "empty" /\ snapshot[b] = "data"

\* C17, as stated: while serving, every fetch begins at the return of a
\* sleep, the first fetch of a session included.
C17_SleepBeforeEveryFetch ==
    [][\A w \in Sockets :
         (lpc = "serving" /\ FetchBegins(w)) => hpc[w] = "sleep"]_vars

\* C17, of the code: a cycle ends with the sleep.  The first readiness test
\* and fetch of a session follow its registration at once; every later one
\* begins at the return of a sleep, and every send follows a fetch.
C17_SleepBeforeLaterFetch ==
    [][\A w \in Sockets :
         /\ FetchBegins(w) => hpc[w] \in {"accept", "sleep"}
         /\ (FetchBegins(w) /\ Registered(w)) => hpc[w] = "sleep"
         /\ (hpc[w] # "send" /\ hpc'[w] = "send") => hpc[w] = "fetch"
         /\ (hpc[w] = "send" /\ hpc'[w] # "send" /\ Running(w)')
               => hpc'[w] = "sleep"]_vars

\* C17: an alert session fetches again, a full sleep after a frame.
C17_FetchAfterFullSleep ==
    \E w \in Sockets :
        /\ topic[w] = "alerts"
        /\ SleptSinceFrame(w)
        /\ hpc[w] = "fetch"

\* The global the handlers of each endpoint fetch from, as named by the
\* claim.
OwnSource(w) ==
    CASE topic[w] = "projects" -> "project_analyzer"
      [] topic[w] = "portfolio" -> "portfolio_optimizer"
      [] topic[w] = "alerts" -> "risk_analyzer"
      [] OTHER -> "none"

\* The entry of identifier c in registry ac, 0 if there is none.
Entry(ac, c) == IF c \in DOMAIN ac THEN ac[c] ELSE 0

\* C18: a session is registered under an identifier made of its topic and
\* its own id; every frame delivered to it was fetched from the source of
\* its topic; a step changes a registry entry only if it is a step of the
\* handler of the very session the entry belongs to.
C18_TopicIsolation ==
    [][/\ \A c \in DOMAIN active_connections' :
             /\ topic'[c[2]] = c[1]
             /\ active_connections'[c] = c[2]
       /\ \A w \in Sockets :
             /\ fetchedFrom'[w] \in {"none", OwnSource(w)'}
             /\ sent'[w] > sent[w] => fetchedFrom[w] = OwnSource(w)
       /\ \A c \in Topics \X Sockets :
             Entry(active_connections', c) # Entry(active_connections, c)
                => /\ topic[c[2]] = c[1]
                   /\ hpc[c[2]] \in {"accept", "send"}
                   /\ hpc'[c[2]] # hpc[c[2]]]_vars

\* C18: a portfolio session and an alert session, both registered, have
\* each been sent a frame fetched from their own source.
C18_TwoTopicsServed ==
    \E a, b \in Sockets :
        /\ topic[a] = "portfolio" /\ topic[b] = "alerts"
        /\ Registered(a) /\ Registered(b)
        /\ hpc[a] = "sleep" /\ hpc[b] = "sleep"
        /\ sent[a] = 1 /\ sent[b] = 1
        /\ fetchedFrom[a] = "portfolio_optimizer"
        /\ fetchedFrom[b] = "risk_analyzer"

\* C19: a frame is delivered to a session only by the returning send of its
\* own handler, only as the first frame of the cycle, and the handler then
\* sleeps; the count of the cycle starts anew only when that sleep has
\* returned or the handler has ended.  So between two frames to one session
\* lies a complete sleep of its handler, a full interval of its topic.
C19_OneFramePerInterval ==
    [][\A w \in Sockets :
         /\ sent'[w] > sent[w]
               => /\ sent[w] = 0
                  /\ hpc[w] = "send"
                  /\ hpc'[w] = "sleep"
                  /\ \A o \in Sockets \ {w} : sent'[o] = sent[o]
         /\ (sent[w] = 1 /\ sent'[w] = 0)
               => (hpc[w] = "sleep" \/ hpc'[w] \in {"exited", "crashed"})]_vars

\* C19: a session was sent a frame, its handler slept a full interval, and
\* the session has been sent the frame of the next cycle.
C19_SecondFrameAfterSleep ==
    \E w \in Sockets :
        /\ SleptSinceFrame(w)
        /\ hpc[w] = "sleep"
        /\ sent[w] = 1

=============================================================================
